---- MODULE Spec2Model ----
(***************************************************************************)
(* gym-memo (src/app.py): a Streamlit script over a Supabase "workouts"    *)
(* table.  The model covers the 1RM estimator, the views computed from the *)
(* loaded DataFrame `sets` (previous-session lookup, day view with PR      *)
(* detection, session aggregation) and the add-set form of two browser     *)
(* sessions of one user writing to the same table.                         *)
(*                                                                         *)
(* Numbers.  weight_kg is held in 1/100 kg and e1rm in 1/3000 kg, so that  *)
(* weight * (1 + reps/30) is the integer weight * (30 + reps) and the      *)
(* tolerance EPS = 0.1 kg is 300.  The arithmetic is exact: the rounding   *)
(* of IEEE doubles is not modelled.                                        *)
(*                                                                         *)
(* Missing values (None, NaN, pd.NA) are the empty sequence, a present     *)
(* value v is <<v>>.                                                       *)
(***************************************************************************)
EXTENDS Integers, Sequences, FiniteSets, TLC

VARIABLES
    db,     \* rows of the workouts table of the user, in physical order
    sets,   \* sets[s]: the DataFrame `sets` of browser session s
    pc,     \* pc[s]: position of the script run of browser session s
    arg,    \* arguments of the est_1rm_epley call
    pandas, \* what the installed pandas/numpy does where its result is not fixed
    out,    \* what the last operation produced
    session_state,  \* st.session_state["user"], st.session_state["access_token"]
    widgets,        \* the texts in the text inputs of the login sidebar
    accounts,       \* the users of the auth service: email -> password
    ex_json,        \* the file exercises.json: None while it does not exist
    runs            \* script runs of the category management so far

vars == <<db, sets, pc, arg, pandas, out, session_state, widgets, accounts, ex_json,
          runs>>

---------------------------------------------------------------------------
(* Bounds and input domains *)

MaxRows == 2        \* rows of a DataFrame the views are applied to
MaxDay == 2         \* stored dates are 1..MaxDay
EstMaxWeight == 4   \* estimator inputs: weight in 0..EstMaxWeight
EstMaxReps == 32    \* estimator inputs: reps in -EstMaxReps..EstMaxReps
MaxInitRows == 1    \* rows of the table when the two-session runs start
MaxRuns == 3        \* script runs of the category management
MaxDbRows == 3      \* rows of the table in the two-session runs

None == <<>>
Some(v) == <<v>>

Sessions == {1, 2}
Days == 1..MaxDay
ViewDays == 1..(MaxDay + 1)
\* sorted(...) of the names is the order of this sequence
ExOrder == <<"Bench Press", "Squat">>
Exercises == {ExOrder[i] : i \in 1..Len(ExOrder)}
SetNos == {1, 2}
\* (weight_kg, reps) of a stored row: 1.5 kg for 1, 2 and 4 reps (e1rm 1.55,
\* 1.60 and 1.70 kg: 0.05, 0.10 and 0.15 kg apart), a row whose weight is
\* null and a row whose reps is null
Loads ==
    { <<None, Some(1)>>, <<Some(150), None>>,
      <<Some(150), Some(1)>>, <<Some(150), Some(2)>>, <<Some(150), Some(4)>> }

EPS == 300

Max(T) == CHOOSE x \in T : \A y \in T : y <= x
Min(T) == CHOOSE x \in T : \A y \in T : x <= y

---------------------------------------------------------------------------
(* Utils *)

est_1rm_epley_div10(weight, reps) ==
    IF weight = None \/ reps = None THEN None
    ELSE IF reps[1] <= 0 THEN None
    ELSE Some(weight[1] * (30 + 3 * reps[1]))

est_1rm_epley_nonneg(weight, reps) ==
    IF weight = None \/ reps = None THEN None
    ELSE IF reps[1] < 0 THEN None
    ELSE Some(weight[1] * (30 + reps[1]))

\* if pd.isna(weight) or pd.isna(reps) or reps <= 0: return None
\* return float(weight) * (1.0 + float(reps) / 30.0)      [in 1/3000 kg]
est_1rm_epley(weight, reps) ==
    IF weight = None \/ reps = None THEN None
    ELSE IF reps[1] <= 0 THEN None
    ELSE Some(weight[1] * (30 + reps[1]))

---------------------------------------------------------------------------
(* The estimator applied to one pair of arguments *)

NoOut == [op |-> "none"]
\* idxmax_allna_raises: Series.idxmax() of an all-NaN float series raises
\* (it returns NaN otherwise); tie_rank: the order the unstable default sort
\* of sort_values leaves rows of equal key in, as a ranking of the labels
AnyPandas == [idxmax_allna_raises |-> FALSE, tie_rank |-> <<>>]
NoArg == [weight |-> None, reps |-> None]

\* Texts of the login sidebar are sequences of characters; a character
\* outside ASCII is written as its code point.
Addr == <<"a", "@", "b", ".", "i", "o">>
Passwords == {"pw1", "pw2"}
access_token(email) == <<"token", email>>
LoggedOut == [user |-> None, access_token |-> None]
LoggedIn == [user |-> Some(Addr), access_token |-> Some(access_token(Addr))]
NoWidgets == [email |-> <<>>, pwd |-> "pw1", su_email |-> <<>>, su_pwd |-> "pw1"]
NoAccounts == [e \in {} |-> "pw1"]

\* The estimator, the views and the form run below the login gate
\* (st.stop() unless session_state["user"] is set); the state of the sidebar
\* plays no part in them.
BelowGate ==
    /\ session_state = LoggedIn
    /\ widgets = NoWidgets
    /\ accounts = NoAccounts
    /\ ex_json = None
    /\ runs = 0

EstWeights == {None} \cup {Some(w) : w \in 0..EstMaxWeight}
EstReps == {None} \cup {Some(r) : r \in (0 - EstMaxReps)..EstMaxReps}

EstInit ==
    /\ db = <<>>
    /\ sets = [s \in Sessions |-> <<>>]
    /\ pc = [s \in Sessions |-> "idle"]
    /\ arg \in [weight : EstWeights, reps : EstReps]
    /\ pandas = AnyPandas
    /\ out = NoOut
    /\ BelowGate

Estimate ==
    /\ out = NoOut
    /\ out' = [op |-> "est", val |-> est_1rm_epley(arg.weight, arg.reps)]
    /\ UNCHANGED <<db, sets, pc, arg, pandas, session_state, widgets, accounts, ex_json, runs>>

EstNext == Estimate

SpecEst == EstInit /\ [][EstNext]_vars

\* C4: est_1rm_epley returns None whenever weight is missing, reps is
\* missing or reps <= 0, and a defined value for every present weight >= 0
\* with reps >= 1, weight = 0 included (the call always produces a result).
C4_UndefinedCases ==
    out.op = "est" =>
        LET undef == arg.weight = None \/ arg.reps = None \/ arg.reps[1] <= 0
        IN  /\ undef => out.val = None
            /\ ~undef => out.val # None /\ Len(out.val) = 1

C4_Witness ==
    /\ out.op = "est"
    /\ arg.weight = Some(0)
    /\ arg.reps = Some(1)
    /\ out.val = Some(0)

\* C5: for weight >= 0 and reps >= 1 the estimate is weight * (1 + reps/30),
\* that is 30 * estimate = weight * (30 + reps) (here in 1/3000 kg against
\* 1/100 kg); it is 0 for weight 0, never below the weight, strictly
\* increasing in reps for weight > 0, and not clamped for large reps.
C5_Formula ==
    (out.op = "est" /\ arg.weight # None /\ arg.reps # None /\ arg.reps[1] >= 1) =>
        LET w == arg.weight[1]
            r == arg.reps[1]
            e == out.val[1]
        IN  /\ out.val # None
            /\ 30 * 100 * e = 3000 * w * (30 + r)
            /\ w = 0 => e = 0
            /\ e >= 30 * w
            /\ \A r2 \in 1..(EstMaxReps + 1) :
                   (w > 0 /\ r2 > r) =>
                       est_1rm_epley(Some(w), Some(r2))[1] > e
            /\ (w > 0 /\ r > 30) => e > 2 * 30 * w

C5_Witness ==
    /\ out.op = "est"
    /\ arg.weight = Some(3)
    /\ arg.reps = Some(31)
    /\ out.val = Some(183)

---------------------------------------------------------------------------
(* The DataFrame `sets` and the views computed from it *)

Rows ==
    { [date |-> d, exercise |-> e, set_no |-> n, weight_kg |-> l[1], reps |-> l[2]] :
        d \in Days, e \in Exercises, n \in SetNos, l \in Loads }

\* .order("date"): a loaded frame is sorted by date, rows of one date in any order
DateSorted(S) == \A i, j \in 1..Len(S) : i < j => S[i].date <= S[j].date

Frames == UNION { { S \in [1..n -> Rows] : DateSorted(S) } : n \in 0..MaxRows }

\* df.apply(lambda r: est_1rm_epley(r["weight_kg"], r["reps"]), axis=1)
E1rm(row) == est_1rm_epley(row.weight_kg, row.reps)

Index(S) == 1..Len(S)

\* Rows of equal sort key within one sorted selection
Tied(S, i, j) ==
    /\ S[i].date = S[j].date
    /\ S[i].exercise = S[j].exercise
    /\ S[i].set_no = S[j].set_no

\* The rankings of the labels that differ for the sorts of S: those that
\* permute the labels of rows of equal (date, exercise, set_no)
TieOrders(S) ==
    { tb \in [Index(S) -> Index(S)] :
        /\ \A i \in Index(S) : Tied(S, i, tb[i])
        /\ \A i, j \in Index(S) : i # j => tb[i] # tb[j] }

\* idxmax() meets an all-NaN float series only when a day has an exercise
\* without a defined e1rm next to one with a defined e1rm
AllNaChoices(S) ==
    IF \E i, j \in Index(S) :
           /\ S[i].date = S[j].date /\ E1rm(S[j]) # None
           /\ \A k \in Index(S) :
                  (S[k].date = S[i].date /\ S[k].exercise = S[i].exercise) => E1rm(S[k]) = None
    THEN BOOLEAN
    ELSE {FALSE}

\* df.sort_values("set_no") of the rows labelled T, as a sequence of labels
SortBySetNo(S, T, tb) ==
    CHOOSE f \in [1..Cardinality(T) -> T] :
        \A i, j \in 1..Cardinality(T) : i < j =>
            \/ S[f[i]].set_no < S[f[j]].set_no
            \/ S[f[i]].set_no = S[f[j]].set_no /\ tb[f[i]] < tb[f[j]]

\* the defined e1rm values of the rows labelled T (NaN is skipped by max)
Defined(S, T) == { E1rm(S[i])[1] : i \in { j \in T : E1rm(S[j]) # None } }

SeriesMax(S, T) == IF Defined(S, T) = {} THEN None ELSE Some(Max(Defined(S, T)))

(* ---- previous-session lookup (same exercise, latest date before `date`) ---- *)

\* (sets["exercise"] == exercise) & (sets["date"] < date)
prev_mask(S, exercise, date) ==
    { i \in Index(S) : S[i].exercise = exercise /\ S[i].date < date }

\* sets[(exercise == ..) & (date == prev_day)] .. .sort_values("set_no")
\*     [["set_no","weight_kg","reps","e1rm","note"]]
prev_df(S, exercise, prev_day, tb) ==
    LET T == { i \in Index(S) : S[i].exercise = exercise /\ S[i].date = prev_day }
        f == SortBySetNo(S, T, tb)
    IN  [k \in 1..Cardinality(T) |->
            [label |-> f[k], set_no |-> S[f[k]].set_no, weight_kg |-> S[f[k]].weight_kg,
             reps |-> S[f[k]].reps, e1rm |-> E1rm(S[f[k]])]]

\* An empty table loads as a DataFrame without columns (db_load_sets returns it
\* as it is), and sets["exercise"] is evaluated before `not sets.empty`.
prev_lookup(S, exercise, date, tb) ==
    IF S = <<>> THEN [status |-> "KeyError"]
    ELSE IF prev_mask(S, exercise, date) = {} THEN [status |-> "none"]
    ELSE LET prev_day == Max({ S[i].date : i \in prev_mask(S, exercise, date) })
             rows == prev_df(S, exercise, prev_day, tb)
         IN  [status |-> "found", prev_day |-> prev_day, rows |-> rows,
              prev_best |-> SeriesMax(S, { rows[k].label : k \in 1..Len(rows) })]

(* ---- day view: sets of one day, session best in red, PR badge ---- *)

today_sets(S, day) == { i \in Index(S) : S[i].date = day }

history_upto(S, day) == { i \in Index(S) : S[i].date <= day }

\* sets[sets["date"] < day]
history(S, day) == { i \in Index(S) : S[i].date < day }

\* history.dropna(subset=["e1rm"]).sort_values(["exercise","e1rm"],
\*     ascending=[True, False]).groupby("exercise").first(); None when ex is
\* not in its index
hist_best(S, day, ex) ==
    SeriesMax(S, { i \in history(S, day) : S[i].exercise = ex })

is_pr_day_no_eps(max_e1rm, hist_best_val) ==
    \/ hist_best_val = None
    \/ max_e1rm # None /\ max_e1rm[1] > hist_best_val[1]

\* (hist_best_val is None) or (max_e1rm > (hist_best_val + EPS)); a NaN
\* max_e1rm compares False
is_pr_day(max_e1rm, hist_best_val) ==
    \/ hist_best_val = None
    \/ max_e1rm # None /\ max_e1rm[1] > hist_best_val[1] + EPS

idxmax_last(S, ex_df) ==
    LET m == SeriesMax(S, { ex_df[k] : k \in 1..Len(ex_df) })
    IN  ex_df[Max({ k \in 1..Len(ex_df) : E1rm(S[ex_df[k]]) = m })]

\* Series.idxmax(): the label of the first occurrence of the maximum, for a
\* series that holds a defined value
idxmax(S, ex_df) ==
    LET m == SeriesMax(S, { ex_df[k] : k \in 1..Len(ex_df) })
    IN  ex_df[Min({ k \in 1..Len(ex_df) : E1rm(S[ex_df[k]]) = m })]

\* One pass of `for ex in sorted(today_sets["exercise"].unique())`.
\* The e1rm column of today_sets is an object column of None when no row of
\* the day has a defined value, and idxmax() is not allowed for it; on a
\* float column that is all NaN for this exercise idxmax() returns NaN or
\* raises, depending on the pandas in use (allna_raises).  In the loop over
\* the rows int(row['reps']) raises for a missing reps.
ex_pass(S, day, ex, tb, allna_raises) ==
    LET T == { i \in today_sets(S, day) : S[i].exercise = ex }
        ex_df == SortBySetNo(S, T, tb)
        max_e1rm == SeriesMax(S, T)
        hist_best_val == hist_best(S, day, ex)
        pr_day == is_pr_day(max_e1rm, hist_best_val)
        object_col == Defined(S, today_sets(S, day)) = {}
        idx_raises == object_col \/ (max_e1rm = None /\ allna_raises)
        best_idx == IF max_e1rm = None THEN None ELSE Some(idxmax(S, ex_df))
        bad == { k \in 1..Len(ex_df) : S[ex_df[k]].reps = None }
        n_shown == IF idx_raises THEN 0
                   ELSE IF bad = {} THEN Len(ex_df) ELSE Min(bad) - 1
        shown == [k \in 1..n_shown |->
                    LET is_session_best == best_idx = Some(ex_df[k])
                    IN  [label |-> ex_df[k], set_no |-> S[ex_df[k]].set_no,
                         red |-> is_session_best,
                         show_pr |-> is_session_best /\ pr_day]]
    IN  [max_e1rm |-> max_e1rm, hist_best_val |-> hist_best_val,
         is_pr_day |-> pr_day,
         best_idx |-> IF idx_raises THEN None ELSE best_idx,
         shown |-> shown,
         raised |-> idx_raises \/ bad # {}]

\* The exercises of the day in sorted order
day_exercises(S, day) ==
    LET P == { k \in 1..Len(ExOrder) :
                 \E i \in today_sets(S, day) : S[i].exercise = ExOrder[k] }
    IN  [n \in 1..Cardinality(P) |->
            ExOrder[CHOOSE k \in P : Cardinality({ j \in P : j < k }) = n - 1]]

\* The day view.  status: "KeyError" (frame without columns), "empty"
\* (st.info, no row on the day), "done", or "raised" (the script stopped in
\* the pass of exercise exs[last]); res holds the passes that were started.
day_view(S, day, tb, allna_raises) ==
    IF S = <<>> THEN [status |-> "KeyError"]
    ELSE IF today_sets(S, day) = {} THEN [status |-> "empty"]
    ELSE LET exs == day_exercises(S, day)
             pass(k) == ex_pass(S, day, exs[k], tb, allna_raises)
             failing == { k \in 1..Len(exs) : pass(k).raised }
             last == IF failing = {} THEN Len(exs) ELSE Min(failing)
         IN  [status |-> IF failing = {} THEN "done" ELSE "raised",
              res |-> [ex \in { exs[k] : k \in 1..last } |->
                          ex_pass(S, day, ex, tb, allna_raises)]]

(* ---- session aggregation: one row per (date, exercise) ---- *)

ses_nan_as_zero(S) ==
    { [date |-> S[i].date, exercise |-> S[i].exercise,
       session_1rm |->
           LET T == { j \in Index(S) : S[j].date = S[i].date /\ S[j].exercise = S[i].exercise }
           IN  IF Defined(S, T) = {} THEN 0 ELSE Max(Defined(S, T))] :
      i \in Index(S) }

\* tmp.dropna(subset=["e1rm"]).groupby(["date","exercise"], as_index=False)
\*     ["e1rm"].max().rename(columns={"e1rm":"session_1rm"})
ses(S) ==
    { [date |-> S[i].date, exercise |-> S[i].exercise,
       session_1rm |->
           Max(Defined(S, { j \in Index(S) :
                   S[j].date = S[i].date /\ S[j].exercise = S[i].exercise }))] :
      i \in { j \in Index(S) : E1rm(S[j]) # None } }

\* if sets.empty: st.info("データがありません。")
session_aggregation(S) ==
    IF S = <<>> THEN [status |-> "nodata"]
    ELSE [status |-> "ok", ses |-> ses(S)]

---------------------------------------------------------------------------
(* The views applied to a loaded frame *)

sets_sorted_in_place(S) ==
    LET f == SortBySetNo(S, Index(S), [i \in Index(S) |-> i])
    IN  [k \in Index(S) |-> S[f[k]]]

\* The frame `sets` after a view: the views filter, sort and add columns on
\* copies (prev_df = sets[..].copy(), today_sets = sets[..].copy(),
\* history = sets[..].copy(), tmp = sets.copy()), never on `sets` itself
sets_after_view(S) == S

ViewInit ==
    /\ db \in Frames
    /\ sets = [s \in Sessions |-> IF s = 1 THEN db ELSE <<>>]
    /\ pc = [s \in Sessions |-> "idle"]
    /\ arg = NoArg
    /\ pandas \in [idxmax_allna_raises : AllNaChoices(db), tie_rank : TieOrders(db)]
    /\ out = NoOut
    /\ BelowGate

\* Each view is rendered from the initial state, and may be rendered again
\* with the same arguments.
PrevLookup(s, exercise, date) ==
    /\ \/ out = NoOut
       \/ out.op = "prev" /\ out.exercise = exercise /\ out.date = date
    /\ out' = [op |-> "prev", exercise |-> exercise, date |-> date,
               r |-> prev_lookup(sets[s], exercise, date, pandas.tie_rank)]
    /\ sets' = [sets EXCEPT ![s] = sets_after_view(sets[s])]
    /\ UNCHANGED <<db, pc, arg, pandas, session_state, widgets, accounts, ex_json, runs>>

DayView(s, day) ==
    /\ \/ out = NoOut
       \/ out.op = "day" /\ out.day = day
    /\ out' = [op |-> "day", day |-> day,
               r |-> day_view(sets[s], day, pandas.tie_rank,
                              pandas.idxmax_allna_raises)]
    /\ sets' = [sets EXCEPT ![s] = sets_after_view(sets[s])]
    /\ UNCHANGED <<db, pc, arg, pandas, session_state, widgets, accounts, ex_json, runs>>

SessionAggregation(s) ==
    /\ out = NoOut \/ out.op = "ses"
    /\ out' = [op |-> "ses", r |-> session_aggregation(sets[s])]
    /\ sets' = [sets EXCEPT ![s] = sets_after_view(sets[s])]
    /\ UNCHANGED <<db, pc, arg, pandas, session_state, widgets, accounts, ex_json, runs>>

ViewNext ==
    \/ \E exercise \in Exercises, date \in ViewDays : PrevLookup(1, exercise, date)
    \/ \E day \in ViewDays : DayView(1, day)
    \/ SessionAggregation(1)

SpecView == ViewInit /\ [][ViewNext]_vars

---------------------------------------------------------------------------
(* Properties of the views.  The Ref.. definitions restate the terms of the *)
(* specification over the frame of session 1, apart from the view operators *)

\* the defined estimated-max values of the observations of ex dated day
RefSessionVals(S, day, ex) ==
    { E1rm(S[i])[1] :
        i \in { j \in Index(S) : S[j].date = day /\ S[j].exercise = ex /\ E1rm(S[j]) # None } }

\* the defined estimated-max values of the observations of ex dated before day
RefPriorVals(S, day, ex) ==
    { E1rm(S[i])[1] :
        i \in { j \in Index(S) : S[j].date < day /\ S[j].exercise = ex /\ E1rm(S[j]) # None } }

DayStarted == out.op = "day" /\ out.r.status \in {"done", "raised"}

\* C1: in a day view, for every exercise whose session-best estimated-max on
\* the target date is defined, the record flag is true exactly when no valid
\* prior session exists or session-best > historical-best + 0.1 kg (an
\* excess of at most 0.1 is not a record).
C1_RecordFlag ==
    DayStarted =>
        \A ex \in DOMAIN out.r.res :
            LET SB == RefSessionVals(sets[1], out.day, ex)
                HB == RefPriorVals(sets[1], out.day, ex)
            IN  SB # {} =>
                    (out.r.res[ex].is_pr_day <=> (HB = {} \/ Max(SB) > Max(HB) + EPS))

C1_Witness ==
    /\ DayStarted
    /\ \E ex \in DOMAIN out.r.res :
          LET SB == RefSessionVals(sets[1], out.day, ex)
              HB == RefPriorVals(sets[1], out.day, ex)
          IN  /\ SB # {} /\ HB # {}
              /\ Max(SB) = Max(HB) + EPS
              /\ ~out.r.res[ex].is_pr_day

\* C2: for every session of the viewed day with a defined estimated-max, one
\* observation is designated session-best: it belongs to the session, has the
\* maximum estimated-max, and the lowest set_no among those tied for it, in
\* whatever order the rows are stored; exactly one shown row is red when the
\* pass completes, and a completed view has passed every exercise of the day.
C2_SessionBestTieBreak ==
    DayStarted =>
        /\ \A ex \in DOMAIN out.r.res :
              LET S == sets[1]
                  SB == RefSessionVals(S, out.day, ex)
                  tiedmax == { i \in Index(S) :
                                 /\ S[i].date = out.day /\ S[i].exercise = ex
                                 /\ E1rm(S[i]) = Some(Max(SB)) }
                  p == out.r.res[ex]
                  red == { k \in 1..Len(p.shown) : p.shown[k].red }
              IN  SB # {} =>
                      /\ p.best_idx # None
                      /\ p.best_idx[1] \in tiedmax
                      /\ S[p.best_idx[1]].set_no = Min({ S[i].set_no : i \in tiedmax })
                      /\ Cardinality(red) <= 1
                      /\ \A k \in red : p.shown[k].label = p.best_idx[1]
                      /\ ~p.raised => Cardinality(red) = 1
        /\ out.r.status = "done" =>
              \A i \in Index(sets[1]) :
                  sets[1][i].date = out.day => sets[1][i].exercise \in DOMAIN out.r.res

C2_Witness ==
    /\ DayStarted
    /\ Len(sets[1]) >= 2
    /\ sets[1][1].date = out.day /\ sets[1][2].date = out.day
    /\ sets[1][1].exercise = sets[1][2].exercise
    /\ sets[1][1].set_no = 2 /\ sets[1][2].set_no = 1
    /\ E1rm(sets[1][1]) = E1rm(sets[1][2]) /\ E1rm(sets[1][1]) # None
    /\ out.r.res[sets[1][1].exercise].best_idx = Some(2)

C7_SessionAggregation ==
    out.op = "ses" =>
        LET S == sets[1]
            rows == IF out.r.status = "ok" THEN out.r.ses ELSE {}
        IN  /\ \A d \in Days, ex \in Exercises :
                  LET V == RefSessionVals(S, d, ex)
                      mine == { r \in rows : r.date = d /\ r.exercise = ex }
                  IN  IF V = {} THEN mine = {}
                      ELSE mine = { [date |-> d, exercise |-> ex, session_1rm |-> Max(V)] }
            /\ \A r \in rows : r.date \in Days /\ r.exercise \in Exercises

C7_Witness ==
    /\ out.op = "ses" /\ out.r.status = "ok"
    /\ Len(sets[1]) = 2
    /\ sets[1][1].date = sets[1][2].date
    /\ sets[1][1].exercise = sets[1][2].exercise
    /\ E1rm(sets[1][1]) = None /\ E1rm(sets[1][2]) # None
    /\ Cardinality(out.r.ses) = 1

\* C6: the previous-session lookup returns "none" when the exercise has no
\* observation dated strictly before the reference date, and otherwise the
\* greatest such date with exactly the observations of that exercise on that
\* date, ordered by set_no ascending.
C6_PreviousSession ==
    out.op = "prev" =>
        LET S == sets[1]
            before == { i \in Index(S) : S[i].exercise = out.exercise /\ S[i].date < out.date }
        IN  IF before = {} THEN out.r.status = "none"
            ELSE /\ out.r.status = "found"
                 /\ out.r.prev_day = Max({ S[i].date : i \in before })
                 /\ { out.r.rows[k].label : k \in 1..Len(out.r.rows) }
                      = { i \in Index(S) : S[i].exercise = out.exercise
                                           /\ S[i].date = out.r.prev_day }
                 /\ Len(out.r.rows) = Cardinality({ i \in Index(S) :
                        S[i].exercise = out.exercise /\ S[i].date = out.r.prev_day })
                 /\ \A k \in 1..Len(out.r.rows) :
                        /\ out.r.rows[k].set_no = S[out.r.rows[k].label].set_no
                        /\ k > 1 => out.r.rows[k - 1].set_no <= out.r.rows[k].set_no

\* C6 on the frames that hold at least one row (any exercise, any date)
C6_OnNonEmptyFrame == sets[1] # <<>> => C6_PreviousSession

\* C8: when the historical best of an exercise is defined and every
\* observation of it on the target date has an undefined estimated-max, its
\* pass of the day view completes without error, with the record flag false
\* and no row marked as a record.
C8_UndefinedSessionBest ==
    DayStarted =>
        \A ex \in DOMAIN out.r.res :
            (RefPriorVals(sets[1], out.day, ex) # {} /\ RefSessionVals(sets[1], out.day, ex) = {}) =>
                /\ ~out.r.res[ex].raised
                /\ ~out.r.res[ex].is_pr_day
                /\ \A k \in 1..Len(out.r.res[ex].shown) : ~out.r.res[ex].shown[k].show_pr

\* C9: on an empty observation collection the previous-session lookup, the
\* day view and the session aggregation each give their "none" / "no data"
\* outcome and none of them raises.
C9_EmptyNeverErrors ==
    (sets[1] = <<>> /\ out.op # "none") =>
        out.r.status \in {"none", "empty", "nodata"}

---------------------------------------------------------------------------
(* Two browser sessions of one user: script runs over the shared table *)

\* st.number_input("重量 (kg)", min_value=0.0, ..) and ("回数 (rep)", min_value=1, ..)
FormWeights == {150}
FormReps == {1}

FormRows ==
    { [date |-> d, exercise |-> e, set_no |-> n, weight_kg |-> Some(w), reps |-> Some(r)] :
        d \in Days, e \in Exercises, n \in SetNos, w \in FormWeights, r \in FormReps }

SetNoUnique(D) ==
    \A i, j \in 1..Len(D) :
        (i < j /\ D[i].date = D[j].date /\ D[i].exercise = D[j].exercise)
            => D[i].set_no # D[j].set_no

\* select("*").eq("user_id", user_id).order("date"): the rows of the table
\* sorted by date, rows of one date in an order the store chooses; no row
\* gives a DataFrame without columns
db_load_sets(D) ==
    { S \in { [k \in 1..Len(D) |-> D[p[k]]] : p \in Permutations(1..Len(D)) } :
        DateSorted(S) }

\* exist = sets[(date == date) & (exercise == exercise)]
\* cur_max = exist["set_no"].max(); int(cur_max) + 1 if pd.notna(cur_max) else 1
next_set_no(S, date, exercise) ==
    LET exist == { i \in Index(S) : S[i].date = date /\ S[i].exercise = exercise }
    IN  IF exist = {} THEN 1 ELSE Max({ S[i].set_no : i \in exist }) + 1

\* supabase.table("workouts").insert({**clean, "user_id": user_id})
db_insert_set(D, row) == Append(D, row)

Init ==
    /\ db \in UNION { [1..n -> FormRows] : n \in 0..MaxInitRows }
    /\ SetNoUnique(db)
    /\ sets = [s \in Sessions |-> <<>>]
    /\ pc = [s \in Sessions |-> "idle"]
    /\ arg = NoArg
    /\ pandas = AnyPandas
    /\ out = NoOut
    /\ BelowGate

\* A script run starts (page load, widget interaction, st.rerun()):
\* sets = db_load_sets(USER_ID) of the initial load
InitialLoad(s) ==
    /\ pc[s] \in {"idle", "stopped"}
    /\ \E S \in db_load_sets(db) : sets' = [sets EXCEPT ![s] = S]
    /\ pc' = [pc EXCEPT ![s] = "form"]
    /\ UNCHANGED <<db, arg, pandas, out, session_state, widgets, accounts, ex_json, runs>>

\* The add_set form of the run: previous-session lookup, next set number,
\* and on submit the insert followed by st.rerun().  The lookup raises on a
\* frame without columns; a failed insert is reported and the run stops.
\* The pre-fill of the inputs from the last set of the previous session only
\* sets the defaults of weight and reps, which are inputs here.  A new
\* exercise name is also added to the exercise master, which is not part of
\* this state.
AddSetForm(s, date, exercise, weight, reps, submitted, api_error) ==
    /\ pc[s] = "form"
    /\ IF prev_lookup(sets[s], exercise, date, [i \in Index(sets[s]) |-> i]).status = "KeyError"
       THEN /\ pc' = [pc EXCEPT ![s] = "stopped"]
            /\ db' = db
       ELSE IF ~submitted
       THEN /\ pc' = [pc EXCEPT ![s] = "tail"]
            /\ db' = db
       ELSE IF api_error
       THEN /\ pc' = [pc EXCEPT ![s] = "stopped"]
            /\ db' = db
       ELSE /\ Len(db) < MaxDbRows
            /\ db' = db_insert_set(db,
                        [date |-> date, exercise |-> exercise,
                         set_no |-> next_set_no(sets[s], date, exercise),
                         weight_kg |-> Some(weight), reps |-> Some(reps)])
            /\ pc' = [pc EXCEPT ![s] = "idle"]
    /\ UNCHANGED <<sets, arg, pandas, out, session_state, widgets, accounts, ex_json, runs>>

\* The rest of a run without submit: sets = db_load_sets(USER_ID) again, then
\* the views, which change nothing; the run ends, stopped if the day view raised
ReloadAndViews(s, day) ==
    /\ pc[s] = "tail"
    /\ \E S \in db_load_sets(db) :
          /\ sets' = [sets EXCEPT ![s] = S]
          /\ pc' = [pc EXCEPT ![s] =
                      IF day_view(S, day, [i \in Index(S) |-> i],
                                  pandas.idxmax_allna_raises).status
                             \in {"KeyError", "raised"}
                      THEN "stopped" ELSE "idle"]
    /\ UNCHANGED <<db, arg, pandas, out, session_state, widgets, accounts, ex_json, runs>>

Next ==
    \E s \in Sessions :
        \/ InitialLoad(s)
        \/ \E date \in Days, exercise \in Exercises, weight \in FormWeights,
              reps \in FormReps, submitted \in BOOLEAN, api_error \in BOOLEAN :
              AddSetForm(s, date, exercise, weight, reps, submitted, api_error)
        \/ \E day \in ViewDays : ReloadAndViews(s, day)

Spec == Init /\ [][Next]_vars

PassMarks(p, SB, HB) ==
    LET red == { k \in 1..Len(p.shown) : p.shown[k].red }
        badge == { k \in 1..Len(p.shown) : p.shown[k].show_pr }
    IN  /\ Cardinality(red) = 1
        /\ \A k \in red : p.best_idx = Some(p.shown[k].label)
        /\ badge \subseteq red
        /\ badge # {} => (HB = {} \/ Max(SB) > Max(HB) + EPS)

\* C12: in the day view, for each exercise with a defined estimated-max on
\* the viewed day, exactly one set is marked red (the session best), and the
\* PR badge is on at most one set: that one, and only when the record flag
\* of the exercise and day is true.
C12_HighlightAndBadge ==
    DayStarted =>
        \A ex \in DOMAIN out.r.res :
            LET SB == RefSessionVals(sets[1], out.day, ex)
                HB == RefPriorVals(sets[1], out.day, ex)
            IN  SB # {} => PassMarks(out.r.res[ex], SB, HB)

\* C12 for the passes that render all their rows
C12_OnCompletedPass ==
    DayStarted =>
        \A ex \in DOMAIN out.r.res :
            LET SB == RefSessionVals(sets[1], out.day, ex)
                HB == RefPriorVals(sets[1], out.day, ex)
            IN  (SB # {} /\ ~out.r.res[ex].raised) => PassMarks(out.r.res[ex], SB, HB)

\* C10: after any sequence of insertions through the add-set form, also
\* interleaved between two sessions that each number the set from their own
\* loaded frame, no two stored observations of one (date, exercise) share a
\* set_no.
C10_SetNoUnique == SetNoUnique(db)

\* C10, second half: a stored observation is never changed (rows are only
\* appended)
C10_StoredRowsKept ==
    [][Len(db') >= Len(db) /\ \A i \in 1..Len(db) : db'[i] = db[i]]_vars

---------------------------------------------------------------------------
(* The login sidebar: Sign in, Create account, Sign out, login gate *)

Letters == {"a", "b", "i", "o"}
Digits == {"1"}
Whitespace == {" ", "U+3000"}
BracketChars ==
    {"(", ")", "U+FF08", "U+FF09", "<", ">", "U+300E", "U+300F", "U+300C", "U+300D"}
NonAscii ==
    {"U+FF41", "U+FF08", "U+FF09", "U+3000", "U+300E", "U+300F", "U+300C",
     "U+300D", "U+00E9"}

\* unicodedata.normalize("NFKC", s): full-width forms become their ASCII
\* counterparts, the ideographic space a space; U+00E9 and the corner
\* brackets are their own normal form
NFKC(s) ==
    [i \in 1..Len(s) |->
        CASE s[i] = "U+FF41" -> "a"
          [] s[i] = "U+FF08" -> "("
          [] s[i] = "U+FF09" -> ")"
          [] s[i] = "U+3000" -> " "
          [] OTHER -> s[i]]

\* str.strip(chars): drops the leading and trailing characters in cs
strip(s, cs) ==
    LET keep == { i \in 1..Len(s) : s[i] \notin cs }
    IN  IF keep = {} THEN <<>> ELSE SubSeq(s, Min(keep), Max(keep))

normalize_email(s) == strip(NFKC(strip(s, Whitespace)), BracketChars)

\* s.encode("ascii") does not raise UnicodeEncodeError
encodes_ascii(s) == \A i \in 1..Len(s) : s[i] \notin NonAscii

\* ^[A-Za-z0-9._%+\-]+@[A-Za-z0-9.\-]+\.[A-Za-z]{2,}$
EMAIL_RE(s) ==
    \E at \in 1..Len(s), dot \in 1..Len(s) :
        /\ s[at] = "@" /\ s[dot] = "."
        /\ 1 < at /\ at + 1 < dot /\ dot + 2 <= Len(s)
        /\ \A i \in 1..(at - 1) : s[i] \in Letters \cup Digits \cup {".", "_", "%", "+", "-"}
        /\ \A i \in (at + 1)..(dot - 1) : s[i] \in Letters \cup Digits \cup {".", "-"}
        /\ \A i \in (dot + 1)..Len(s) : s[i] \in Letters

\* what the user may type into an email input
EmailTexts ==
    { Addr,
      <<"<">> \o Addr \o <<">">>,
      <<" ">> \o Addr,
      <<"U+FF41", "@", "b", ".", "i", "o">>,
      <<"U+00E9", "@", "b", ".", "i", "o">>,
      <<"a", "@", "b">>,
      <<>> }

\* the names bound when the Sign in handler runs: the script's globals are
\* rebuilt on every run, and above the handler the sidebar binds
\* email = st.text_input("Email") and pwd = st.text_input("Password")
signin_namespace(w) == [email |-> w.email, pwd |-> w.pwd]

\* reading a global name: its value, or NameError when it is not bound
load_name(ns, name) ==
    IF name \in DOMAIN ns
    THEN [status |-> "ok", value |-> ns[name]]
    ELSE [status |-> "NameError"]

\* supabase.auth.sign_in_with_password: a session for a known user with the
\* right password, AuthApiError otherwise
sign_in_with_password(acc, email, password) ==
    IF email \in DOMAIN acc /\ acc[email] = password
    THEN [status |-> "ok", user |-> email, access_token |-> access_token(email)]
    ELSE [status |-> "AuthApiError"]

\* if st.button("Sign in"): ... the handler; status is how the script run
\* ends (NameError, st.stop() after st.error, AuthApiError, st.rerun())
sign_in(ss, w, acc) ==
    LET ns == signin_namespace(w)
        li_email_raw == load_name(ns, "li_email_raw")
    IN  IF li_email_raw.status = "NameError"
        THEN [status |-> "NameError", session_state |-> ss]
        ELSE LET li_email == normalize_email(li_email_raw.value)
                 li_pwd == load_name(ns, "li_pwd")
             IN  IF ~encodes_ascii(li_email) \/ ~EMAIL_RE(li_email)
                 THEN [status |-> "st.stop", session_state |-> ss]
                 ELSE IF li_pwd.status = "NameError"
                 THEN [status |-> "NameError", session_state |-> ss]
                 ELSE LET auth == sign_in_with_password(acc, li_email, li_pwd.value)
                      IN  IF auth.status = "AuthApiError"
                          THEN [status |-> "AuthApiError", session_state |-> ss]
                          ELSE [status |-> "st.rerun",
                                session_state |-> [user |-> Some(auth.user),
                                                   access_token |-> Some(auth.access_token)]]

\* supabase.auth.sign_up inside try/except: a new user, or an error message
\* for an address that is taken
sign_up(acc, email, password) ==
    IF email \in DOMAIN acc
    THEN acc
    ELSE [e \in DOMAIN acc \cup {email} |-> IF e = email THEN password ELSE acc[e]]

\* if st.button("Create account"): ...
create_account(w, acc) ==
    LET su_email == normalize_email(w.su_email)
    IN  IF ~encodes_ascii(su_email) \/ ~EMAIL_RE(su_email)
        THEN [status |-> "st.stop", accounts |-> acc]
        ELSE [status |-> "done", accounts |-> sign_up(acc, su_email, w.su_pwd)]

\* if st.button("Sign out"): ...
sign_out(ss) == [user |-> None, access_token |-> None]

\* if st.session_state["user"] is None: st.stop()
login_gate(ss) == IF ss.user = None THEN "st.stop" ELSE "passed"

AuthInit ==
    /\ db = <<>>
    /\ sets = [s \in Sessions |-> <<>>]
    /\ pc = [s \in Sessions |-> "idle"]
    /\ arg = NoArg
    /\ pandas = AnyPandas
    /\ out = NoOut
    /\ session_state = LoggedOut
    /\ widgets = NoWidgets
    /\ accounts = NoAccounts
    /\ ex_json = None
    /\ runs = 0

\* The user edits a text input of the logged-out sidebar; the script runs
\* with no button pressed and stops at the login gate.
TypeInput ==
    /\ session_state.user = None
    /\ \/ \E t \in EmailTexts : widgets' = [widgets EXCEPT !.email = t]
       \/ \E t \in EmailTexts : widgets' = [widgets EXCEPT !.su_email = t]
       \/ \E t \in Passwords : widgets' = [widgets EXCEPT !.pwd = t]
       \/ \E t \in Passwords : widgets' = [widgets EXCEPT !.su_pwd = t]
    /\ out' = [op |-> "input", gate |-> login_gate(session_state)]
    /\ UNCHANGED <<db, sets, pc, arg, pandas, session_state, accounts, ex_json, runs>>

SignIn ==
    /\ session_state.user = None
    /\ LET r == sign_in(session_state, widgets, accounts)
       IN  /\ session_state' = r.session_state
           /\ out' = [op |-> "Sign in", status |-> r.status]
    /\ UNCHANGED <<db, sets, pc, arg, pandas, widgets, accounts, ex_json, runs>>

CreateAccount ==
    /\ session_state.user = None
    /\ LET r == create_account(widgets, accounts)
       IN  /\ accounts' = r.accounts
           /\ out' = [op |-> "Create account", status |-> r.status,
                      gate |-> login_gate(session_state)]
    /\ UNCHANGED <<db, sets, pc, arg, pandas, session_state, widgets, ex_json, runs>>

AuthNext == TypeInput \/ SignIn \/ CreateAccount

SpecAuth == AuthInit /\ [][AuthNext]_vars

\* C13: pressing Sign in while logged out, with a well-formed ASCII email
\* and credentials the auth service accepts, leaves both session_state user
\* and access_token set, so that the script passes the login gate.
C13_SignInLogsIn ==
    (/\ out.op = "Sign in"
     /\ encodes_ascii(widgets.email) /\ EMAIL_RE(widgets.email)
     /\ sign_in_with_password(accounts, widgets.email, widgets.pwd).status = "ok")
        => /\ session_state.user # None
           /\ session_state.access_token # None
           /\ login_gate(session_state) = "passed"

\* C13, second half: Sign out puts None in both entries of the session
\* state, whatever they held, and the login gate then stops the script
C13_SignOutResets ==
    \A ss \in [user : {None, Some(Addr)}, access_token : {None, Some(access_token(Addr))}] :
        /\ sign_out(ss) = LoggedOut
        /\ login_gate(sign_out(ss)) = "st.stop"

---------------------------------------------------------------------------
(* Category management of the sidebar over exercises.json *)

\* The keys stand for the Japanese category names of DEFAULT_EX (legs,
\* chest, back, shoulders, arms, uncategorised), in the order of the source.
Uncategorized == "Uncategorized"
DEFAULT_EX ==
    [bp \in {"Legs", "Chest", "Back", "Shoulders", "Arms", Uncategorized} |->
        CASE bp = "Legs" -> <<"Squat", "Deadlift", "Leg Press">>
          [] bp = "Chest" -> <<"Bench Press", "Incline Bench Press", "Dips">>
          [] bp = "Back" -> <<"Barbell Row", "Pull-up", "Lat Pulldown">>
          [] bp = "Shoulders" -> <<"Overhead Press", "Lateral Raise">>
          [] bp = "Arms" -> <<"Barbell Curl", "Triceps Pushdown">>
          [] OTHER -> <<>>]

\* what the user may type into a category-name input
BpTexts == {"", " ", "Cardio", " Cardio ", "Legs", Uncategorized}

\* (x or "").strip() on the texts of this part of the model: the two texts
\* with surrounding whitespace are listed, no other text here has any
str_strip(x) ==
    CASE x = " " -> ""
      [] x = " Cardio " -> "Cardio"
      [] OTHER -> x

RECURSIVE dedup_from(_, _, _)
dedup_from(seq, seen, acc) ==
    IF seq = <<>> THEN acc
    ELSE LET x == str_strip(Head(seq))
         IN  IF x # "" /\ x \notin seen
             THEN dedup_from(Tail(seq), seen \cup {x}, Append(acc, x))
             ELSE dedup_from(Tail(seq), seen, acc)

_dedup_keep_order(seq) == dedup_from(seq, {}, <<>>)

\* dict.get(key, default)
dict_get(d, k, default) == IF k \in DOMAIN d THEN d[k] ELSE default

\* d[k] = v
dict_set(d, k, v) == [x \in DOMAIN d \cup {k} |-> IF x = k THEN v ELSE d[x]]

\* d.pop(k) as a statement: the dict without the key
dict_pop(d, k) == [x \in DOMAIN d \ {k} |-> d[x]]

\* the dict load_ex_master() returns: DEFAULT_EX when the file is missing,
\* else the file's dict with every default category present and deduplicated
load_ex_master(file) ==
    IF file = None THEN DEFAULT_EX
    ELSE LET data == file[1]
         IN  [bp \in DOMAIN data \cup DOMAIN DEFAULT_EX |->
                 IF bp \in DOMAIN DEFAULT_EX
                 THEN _dedup_keep_order(dict_get(data, bp, <<>>))
                 ELSE data[bp]]

\* the file after load_ex_master() when no handler saves: written with
\* DEFAULT_EX if it was missing
file_after_load(file) == IF file = None THEN Some(DEFAULT_EX) ELSE file

\* "add category" handler: the dict, and whether it was saved
bp_add(m, new_bp) ==
    LET name == str_strip(new_bp)
    IN  IF name # ""
        THEN [saved |-> TRUE,
              ex_master |-> IF name \in DOMAIN m THEN m ELSE dict_set(m, name, <<>>)]
        ELSE [saved |-> FALSE, ex_master |-> m]

\* "rename category" handler: ex_master[new] = ex_master.pop(old)
bp_rename(m, bp_old, bp_new) ==
    LET new == str_strip(bp_new)
    IN  IF new # "" /\ bp_old \in DOMAIN m
        THEN [saved |-> TRUE, ex_master |-> dict_set(dict_pop(m, bp_old), new, m[bp_old])]
        ELSE [saved |-> FALSE, ex_master |-> m]

\* "delete category" handler
bp_delete(m, bp_del) ==
    IF bp_del \in DOMAIN m /\ bp_del # Uncategorized
    THEN [saved |-> TRUE,
          ex_master |->
              dict_pop(dict_set(m, Uncategorized,
                                _dedup_keep_order(dict_get(m, Uncategorized, <<>>) \o m[bp_del])),
                       bp_del)]
    ELSE [saved |-> FALSE, ex_master |-> m]

\* the exercise names of a dict
AllNames(m) == UNION { { m[bp][i] : i \in 1..Len(m[bp]) } : bp \in DOMAIN m }

\* the file after a script run whose handler returned r
file_after(file, r) == IF r.saved THEN Some(r.ex_master) ELSE file_after_load(file)

MasterInit ==
    /\ db = <<>>
    /\ sets = [s \in Sessions |-> <<>>]
    /\ pc = [s \in Sessions |-> "idle"]
    /\ arg = NoArg
    /\ pandas = AnyPandas
    /\ out = NoOut
    /\ session_state = LoggedIn
    /\ widgets = NoWidgets
    /\ accounts = NoAccounts
    /\ ex_json = None
    /\ runs = 0

\* Each action is one script run: ex_master = load_ex_master(), then the
\* handler of the pressed button, which saves the dict it changed.
BpAdd(new_bp) ==
    /\ runs < MaxRuns
    /\ runs' = runs + 1
    /\ LET r == bp_add(load_ex_master(ex_json), new_bp)
       IN  /\ ex_json' = file_after(ex_json, r)
           /\ out' = [op |-> "bp_add", saved |-> r.saved]
    /\ UNCHANGED <<db, sets, pc, arg, pandas, session_state, widgets, accounts>>

BpRename(bp_old, bp_new) ==
    /\ runs < MaxRuns
    /\ runs' = runs + 1
    /\ bp_old \in DOMAIN load_ex_master(ex_json)
    /\ LET r == bp_rename(load_ex_master(ex_json), bp_old, bp_new)
       IN  /\ ex_json' = file_after(ex_json, r)
           /\ out' = [op |-> "bp_rename", saved |-> r.saved]
    /\ UNCHANGED <<db, sets, pc, arg, pandas, session_state, widgets, accounts>>

BpDelete(bp_del) ==
    /\ runs < MaxRuns
    /\ runs' = runs + 1
    /\ bp_del \in DOMAIN load_ex_master(ex_json)
    /\ LET r == bp_delete(load_ex_master(ex_json), bp_del)
       IN  /\ ex_json' = file_after(ex_json, r)
           /\ out' = [op |-> "bp_del", saved |-> r.saved]
    /\ UNCHANGED <<db, sets, pc, arg, pandas, session_state, widgets, accounts>>

BpNames == DOMAIN DEFAULT_EX \cup { str_strip(t) : t \in BpTexts }

MasterNext ==
    \/ \E new_bp \in BpTexts : BpAdd(new_bp)
    \/ \E bp_old \in BpNames, bp_new \in BpTexts : BpRename(bp_old, bp_new)
    \/ \E bp_del \in BpNames : BpDelete(bp_del)

SpecMaster == MasterInit /\ [][MasterNext]_vars

\* C14: no category operation (add, rename, delete) loses an exercise name:
\* every name that is in some category when the script run loads the dict
\* is in some category of the file after the run.
C14_NoNameLost ==
    [][AllNames(load_ex_master(ex_json)) \subseteq AllNames(load_ex_master(ex_json'))]_vars

\* C14, the part on deleting: the category "uncategorised" is never deleted,
\* and after a delete it holds every name of the deleted category, each name
\* once.
C14_DeleteKeepsNames ==
    [][out'.op = "bp_del" =>
        /\ AllNames(load_ex_master(ex_json)) \subseteq AllNames(load_ex_master(ex_json'))
        /\ Uncategorized \in DOMAIN load_ex_master(ex_json')
        /\ out'.saved =>
               \E bp \in DOMAIN load_ex_master(ex_json) \ {Uncategorized} :
                   /\ bp \notin DOMAIN ex_json'[1]
                   /\ AllNames([x \in {bp} |-> load_ex_master(ex_json)[bp]])
                          \subseteq AllNames([x \in {Uncategorized} |-> ex_json'[1][Uncategorized]])
        /\ LET u == load_ex_master(ex_json')[Uncategorized]
           IN  \A i, j \in 1..Len(u) : u[i] = u[j] => i = j]_vars
====
